---- MODULE Spec2Model ----
(***************************************************************************)
(* Model of the seller-apis scripts: seller.py (Ozon) and market.py        *)
(* (Yandex Market).  Each script pages through a marketplace catalog,      *)
(* reconciles the offer ids with the supplier's feed and sends the stock   *)
(* and price records back in batches.                                      *)
(*                                                                         *)
(* Data.  A spreadsheet cell is [t |-> "int", v |-> k] (a numeric cell) or *)
(* [t |-> "str", v |-> s] (a text cell).  Offer ids are strings.  A price  *)
(* cell is a sequence of one-character strings, because price_conversion   *)
(* works on the characters.  The feed columns are named Kod, Kolichestvo   *)
(* and Tsena after the spreadsheet's column titles.                        *)
(*                                                                         *)
(* The docstrings of seller.get_offer_ids, market.update_stocks and        *)
(* market.upload_stocks are indented one column deeper than the function   *)
(* bodies, which Python rejects when it compiles the files.  The model     *)
(* reads the functions with that indentation repaired.                     *)
(*                                                                         *)
(* upload_stocks and upload_prices are coroutines; as entry points they    *)
(* are modelled as awaited by their caller (they hold no await, so they    *)
(* run to their end in one go).                                            *)
(*                                                                         *)
(* Every HTTP call is blocking.  It is modelled as two steps: the request  *)
(* is issued and joins in_flight, then it comes back, leaves in_flight and *)
(* (for a marketplace request) joins the log requests.                     *)
(***************************************************************************)
EXTENDS Integers, Sequences, FiniteSets, TLC

\* ------------------------------------------------------------------ bounds

\* Longest record list handed to divide when it is called on its own.
MaxLen == 4
\* Largest batch size handed to divide when it is called on its own.
MaxN == 3
\* Most feed rows when create_stocks / create_prices are called on their own.
MaxRows == 2
\* Offer ids "1" .. ToString(MaxCode) when create_stocks / create_prices are
\* called on their own.
MaxCode == 2
\* Largest quantity of a feed cell.
MaxQty == 11
\* Longest price string drawn exhaustively for price_conversion.
MaxPriceLen == 3
\* Record lists of a run hold up to MaxBatches full batches, and one record more.
MaxBatches == 2

\* --------------------------------------------------------- program constants

\* divide(stocks, 100) in seller.main and seller.upload_stocks
OZON_STOCKS_CEILING == 100
\* divide(prices, 900) in seller.main
OZON_MAIN_PRICES_CEILING == 900
\* divide(prices, 1000) in seller.upload_prices
OZON_PRICES_CEILING == 1000
\* divide(stocks, 2000) in market.main and market.upload_stocks
YANDEX_STOCKS_CEILING == 2000
\* divide(prices, 500) in market.upload_prices
YANDEX_PRICES_CEILING == 500
\* "limit": 1000 of seller.get_product_list
OZON_PAGE_LIMIT == 1000
\* "limit": 200 of market.get_product_list
YANDEX_PAGE_LIMIT == 200
\* stock = 100 for the quantity ">10"
MANY_STOCK == 100

\* ------------------------------------------------------------ plain helpers

Range(s) == {s[i] : i \in 1..Len(s)}

Min(a, b) == IF a < b THEN a ELSE b

\* list.remove(x): the list without the first occurrence of x.
ListRemove(lst, x) ==
    LET k == CHOOSE i \in 1..Len(lst) :
                 lst[i] = x /\ \A j \in 1..(i - 1) : lst[j] # x
    IN  SubSeq(lst, 1, k - 1) \o SubSeq(lst, k + 1, Len(lst))

\* str(cell) of a spreadsheet cell.
py_str(cell) == IF cell.t = "int" THEN ToString(cell.v) ELSE cell.v

\* int(cell) of a spreadsheet cell: the number itself, or the number a decimal
\* text cell denotes.
py_int(cell) ==
    IF cell.t = "int" THEN cell.v
    ELSE CHOOSE k \in 0..MaxQty : ToString(k) = cell.v

\* ---------------------------------------------------------- price_conversion

Digits == {"0", "1", "2", "3", "4", "5", "6", "7", "8", "9"}

\* price.split(".")[0]: the characters before the first ".", all of them when
\* there is none.
SplitDotFirst(price) ==
    LET dots == {i \in 1..Len(price) : price[i] = "."}
        cut  == IF dots = {} THEN Len(price) + 1
                ELSE CHOOSE i \in dots : \A j \in dots : i <= j
    IN  SubSeq(price, 1, cut - 1)

IsDigit(c) == c \in Digits

\* re.sub("[^0-9]", "", s): s without the characters that are no digit.
ReSubNonDigits(s) == SelectSeq(s, IsDigit)

\* A variant that splits at the last "." instead of the first.
price_conversion_lastdot(price) ==
    LET dots == {i \in 1..Len(price) : price[i] = "."}
        cut  == IF dots = {} THEN Len(price) + 1
                ELSE CHOOSE i \in dots : \A j \in dots : i >= j
    IN  ReSubNonDigits(SubSeq(price, 1, cut - 1))

price_conversion(price) == ReSubNonDigits(SplitDotFirst(price))

DigitValue(c) ==
    CASE c = "0" -> 0 [] c = "1" -> 1 [] c = "2" -> 2 [] c = "3" -> 3
      [] c = "4" -> 4 [] c = "5" -> 5 [] c = "6" -> 6 [] c = "7" -> 7
      [] c = "8" -> 8 [] c = "9" -> 9

\* int(s) of a non-empty string of decimal digits.
RECURSIVE py_int_digits(_)
py_int_digits(s) ==
    IF Len(s) = 0 THEN 0
    ELSE 10 * py_int_digits(SubSeq(s, 1, Len(s) - 1)) + DigitValue(s[Len(s)])

\* ------------------------------------------------------------------- divide

\* range(0, len, n) for n >= 1: the starts 0, n, 2n, ... below len
RangeStep(len, n) == [k \in 1..((len + n - 1) \div n) |-> (k - 1) * n]

\* lst[i : j], counted from 0 and cut at the end of the list
Slice(lst, i, j) == SubSeq(lst, i + 1, Min(j, Len(lst)))

\* divide with slices one record too long: lst[i : i + n + 1].
divide_wide(lst, n) ==
    [k \in 1..Len(RangeStep(Len(lst), n)) |->
        Slice(lst, RangeStep(Len(lst), n)[k], RangeStep(Len(lst), n)[k] + n + 1)]

\* divide that yields the full slices only and leaves a shorter rest out.
divide_full(lst, n) ==
    [k \in 1..(Len(lst) \div n) |-> Slice(lst, (k - 1) * n, k * n)]

\* list(divide(lst, n)): one slice lst[i : i + n] per start i
divide(lst, n) ==
    [k \in 1..Len(RangeStep(Len(lst), n)) |->
        Slice(lst, RangeStep(Len(lst), n)[k], RangeStep(Len(lst), n)[k] + n)]

\* ------------------------------------------------------------ create_stocks

\* The mapping without the branch for the quantity "1".
seller_stock_plain(watch) ==
    LET count == py_str(watch.Kolichestvo)
    IN  IF count = ">10" THEN MANY_STOCK
        ELSE py_int(watch.Kolichestvo)

\* The stock of a matched feed row (seller.create_stocks, the if / elif / else).
seller_stock(watch) ==
    LET count == py_str(watch.Kolichestvo)
    IN  IF count = ">10" THEN MANY_STOCK
        ELSE IF count = "1" THEN 0
        ELSE py_int(watch.Kolichestvo)

\* The first loop of seller.create_stocks from row i on: a row whose code is in
\* offer_ids appends a record and removes the code from offer_ids.
RECURSIVE seller_match_rows(_, _, _, _)
seller_match_rows(watch_remnants, i, stocks, offer_ids) ==
    IF i > Len(watch_remnants) THEN [stocks |-> stocks, offer_ids |-> offer_ids]
    ELSE LET watch == watch_remnants[i]
             code  == py_str(watch.Kod)
         IN  IF code \in Range(offer_ids)
             THEN seller_match_rows(
                      watch_remnants, i + 1,
                      Append(stocks, [offer_id |-> code, stock |-> seller_stock(watch)]),
                      ListRemove(offer_ids, code))
             ELSE seller_match_rows(watch_remnants, i + 1, stocks, offer_ids)

\* The second loop of seller.create_stocks: stock 0 for what is left in offer_ids.
seller_zero_stocks(offer_ids) ==
    [k \in 1..Len(offer_ids) |-> [offer_id |-> offer_ids[k], stock |-> 0]]

\* seller.create_stocks: the records returned, and offer_ids as the call leaves
\* the caller's list.
seller_create_stocks(watch_remnants, offer_ids) ==
    LET m == seller_match_rows(watch_remnants, 1, <<>>, offer_ids)
    IN  [stocks |-> m.stocks \o seller_zero_stocks(m.offer_ids),
         offer_ids |-> m.offer_ids]

\* The stock of a matched feed row (market.create_stocks, the if / elif / else).
market_stock(watch) ==
    LET count == py_str(watch.Kolichestvo)
    IN  IF count = ">10" THEN MANY_STOCK
        ELSE IF count = "1" THEN 0
        ELSE py_int(watch.Kolichestvo)

\* One entry of the "skus" list; "type" is always "FIT" and "updatedAt" the
\* time of the call, the same in every record of one call.
market_sku(sku, warehouse_id, count) ==
    [sku |-> sku, warehouseId |-> warehouse_id, count |-> count]

\* The first loop without offer_ids.remove: the matched codes stay in offer_ids.
RECURSIVE market_match_rows_keep(_, _, _, _, _)
market_match_rows_keep(watch_remnants, i, stocks, offer_ids, warehouse_id) ==
    IF i > Len(watch_remnants) THEN [stocks |-> stocks, offer_ids |-> offer_ids]
    ELSE LET watch == watch_remnants[i]
             code  == py_str(watch.Kod)
         IN  IF code \in Range(offer_ids)
             THEN market_match_rows_keep(
                      watch_remnants, i + 1,
                      Append(stocks, market_sku(code, warehouse_id, market_stock(watch))),
                      offer_ids, warehouse_id)
             ELSE market_match_rows_keep(watch_remnants, i + 1, stocks, offer_ids,
                                         warehouse_id)

\* The first loop of market.create_stocks from row i on.
RECURSIVE market_match_rows(_, _, _, _, _)
market_match_rows(watch_remnants, i, stocks, offer_ids, warehouse_id) ==
    IF i > Len(watch_remnants) THEN [stocks |-> stocks, offer_ids |-> offer_ids]
    ELSE LET watch == watch_remnants[i]
             code  == py_str(watch.Kod)
         IN  IF code \in Range(offer_ids)
             THEN market_match_rows(
                      watch_remnants, i + 1,
                      Append(stocks, market_sku(code, warehouse_id, market_stock(watch))),
                      ListRemove(offer_ids, code), warehouse_id)
             ELSE market_match_rows(watch_remnants, i + 1, stocks, offer_ids,
                                    warehouse_id)

\* The second loop of market.create_stocks: count 0 for what is left in offer_ids.
market_zero_stocks(offer_ids, warehouse_id) ==
    [k \in 1..Len(offer_ids) |-> market_sku(offer_ids[k], warehouse_id, 0)]

\* market.create_stocks: the records returned, and offer_ids as the call leaves
\* the caller's list.
market_create_stocks(watch_remnants, offer_ids, warehouse_id) ==
    LET m == market_match_rows(watch_remnants, 1, <<>>, offer_ids, warehouse_id)
    IN  [stocks |-> m.stocks \o market_zero_stocks(m.offer_ids, warehouse_id),
         offer_ids |-> m.offer_ids]

\* ------------------------------------------------------------ create_prices

\* seller.create_prices; the fields auto_action_enabled, currency_code and
\* old_price are the same constants in every record.
seller_price(watch) ==
    [offer_id |-> py_str(watch.Kod), price |-> price_conversion(watch.Tsena)]

seller_price_rows(rows) == [k \in 1..Len(rows) |-> seller_price(rows[k])]

seller_create_prices(watch_remnants, offer_ids) ==
    LET InCatalog(watch) == py_str(watch.Kod) \in Range(offer_ids)
    IN  seller_price_rows(SelectSeq(watch_remnants, InCatalog))

\* market.create_prices; currencyId is "RUR" in every record.
market_price(watch) ==
    [id    |-> py_str(watch.Kod),
     value |-> py_int_digits(price_conversion(watch.Tsena))]

market_price_rows(rows) == [k \in 1..Len(rows) |-> market_price(rows[k])]

market_create_prices(watch_remnants, offer_ids) ==
    LET InCatalog(watch) == py_str(watch.Kod) \in Range(offer_ids)
    IN  market_price_rows(SelectSeq(watch_remnants, InCatalog))

\* -------------------------------------------------------------------- state

VARIABLES
    entry,          \* the function the interpreter was started on
    catalog,        \* the marketplace's products: campaign -> list of offer ids
    supplier,       \* the rows of the supplier's spreadsheet
    pc,             \* the statement the script is at
    campaign,       \* the campaign (client) the script is working on
    page,           \* last_id (Ozon) / page (Yandex) of get_offer_ids
    product_list,   \* product_list of get_offer_ids
    offer_ids,      \* the caller's offer_ids list
    watch_remnants, \* the feed as download_stock returned it
    stocks,         \* the list create_stocks returned
    prices,         \* the list create_prices returned
    batches,        \* the batches of list(divide(...)) not sent yet
    requests,       \* every marketplace request that came back, in order
    in_flight,      \* the requests issued whose call has not come back yet
    coroutines,     \* coroutine objects created and never awaited
    outcome,        \* "running", "returned" or "raised"
    printed,        \* what the script printed
    call,           \* the arguments of a function called on its own
    result          \* what the entry function returned

vars == <<entry, catalog, supplier, pc, campaign, page, product_list, offer_ids,
          watch_remnants, stocks, prices, batches, requests, in_flight,
          coroutines, outcome, printed, call, result>>

SellerEntries == {"seller.main", "seller.upload_stocks", "seller.upload_prices"}
MarketEntries == {"market.main", "market.upload_stocks", "market.upload_prices"}
MainEntries   == {"seller.main", "market.main"}

\* Python's None
None == "None"

\* The exceptions a request raises: a read timeout, a connection error, and
\* the HTTPError of raise_for_status.
Failures == {"ReadTimeout", "ConnectionError", "HTTPError"}

\* The except clauses of main.
Message(failure) ==
    CASE failure = "ReadTimeout"     -> "Prevysheno vremya ozhidaniya..."
      [] failure = "ConnectionError" -> "Oshibka soedineniya"
      [] OTHER                       -> "ERROR_2"

\* The warehouse main passes along with a campaign.
Warehouse(c) == IF c = "FBS" THEN "WAREHOUSE_FBS_ID" ELSE "WAREHOUSE_DBS_ID"

\* The second argument of divide at each call site.
StocksCeiling(e) ==
    IF e \in SellerEntries THEN OZON_STOCKS_CEILING ELSE YANDEX_STOCKS_CEILING

PricesCeiling(e) ==
    CASE e = "seller.main"          -> OZON_MAIN_PRICES_CEILING
      [] e = "seller.upload_prices" -> OZON_PRICES_CEILING
      [] OTHER                      -> YANDEX_PRICES_CEILING

\* ------------------------------------------------------------------- inputs

IntCell(k) == [t |-> "int", v |-> k]
StrCell(s) == [t |-> "str", v |-> s]
Row(kod, kolichestvo, tsena) ==
    [Kod |-> kod, Kolichestvo |-> kolichestvo, Tsena |-> tsena]

\* "5'990.00" and "111.11", the prices of the docstrings
Price5990 == <<"5", "'", "9", "9", "0", ".", "0", "0">>
Price111  == <<"1", "1", "1", ".", "1", "1">>

\* A catalog of n products with the offer ids "1" .. "n".
Ids(n) == [i \in 1..n |-> ToString(i)]

\* List lengths at the edges of a ceiling c: none, one, and k full batches
\* with and without one record more.
Sizes(c) == {0, 1} \cup {k * c + d : k \in 1..MaxBatches, d \in {0, 1}}

\* Short feeds: empty; one matched row; an int and a text code; a code that is
\* in no catalog and a code that comes twice; a code of the second hundred.
SmallFeeds ==
    { <<>>,
      <<Row(IntCell(1), StrCell(">10"), Price5990)>>,
      <<Row(IntCell(1), IntCell(5), Price5990),
        Row(StrCell("2"), IntCell(1), Price111)>>,
      <<Row(IntCell(0), IntCell(7), Price111),
        Row(IntCell(1), IntCell(5), Price5990),
        Row(IntCell(1), StrCell(">10"), Price111)>>,
      <<Row(IntCell(101), IntCell(3), Price5990),
        Row(StrCell("2"), StrCell("1"), Price111)>> }

\* A feed of f rows that all carry the code 1.
LongFeed(f) ==
    [i \in 1..f |->
        Row(IntCell(1), IntCell(i % 3), IF i % 2 = 0 THEN Price5990 ELSE Price111)]

\* The catalogs and feeds a run starts from, per entry point.  The stock lists
\* are as long as the catalog, so the catalogs are sized at the edges of the
\* stock ceiling and of the page limit; the price lists are as long as the
\* matched part of the feed, so the feeds of upload_prices are sized at the
\* edges of the price ceiling.
Scenarios(e) ==
    CASE e \in {"seller.main", "seller.upload_stocks"} ->
           { [catalog |-> [c \in {"OZON"} |-> Ids(n)], feed |-> f] :
               n \in Sizes(OZON_STOCKS_CEILING) \cup {OZON_PAGE_LIMIT, OZON_PAGE_LIMIT + 1},
               f \in SmallFeeds }
      [] e = "seller.upload_prices" ->
           { [catalog |-> [c \in {"OZON"} |-> Ids(n)], feed |-> LongFeed(f)] :
               n \in 0..2, f \in Sizes(OZON_PRICES_CEILING) }
      [] e = "market.main" ->
           { [catalog |-> [c \in {"FBS", "DBS"} |->
                              IF c = "FBS" THEN Ids(n) ELSE Ids(m)],
              feed |-> f] :
               n \in Sizes(YANDEX_STOCKS_CEILING) \cup {YANDEX_PAGE_LIMIT, YANDEX_PAGE_LIMIT + 1},
               m \in {0, 2, YANDEX_PAGE_LIMIT + 1},
               f \in SmallFeeds }
      [] e = "market.upload_stocks" ->
           { [catalog |-> [c \in {"FBS"} |-> Ids(n)], feed |-> f] :
               n \in Sizes(YANDEX_STOCKS_CEILING) \cup {YANDEX_PAGE_LIMIT, YANDEX_PAGE_LIMIT + 1},
               f \in SmallFeeds }
      [] e = "market.upload_prices" ->
           { [catalog |-> [c \in {"FBS"} |-> Ids(n)], feed |-> LongFeed(f)] :
               n \in 0..2, f \in Sizes(YANDEX_PRICES_CEILING) }

\* The state a run of entry point e starts in.
InitRun ==
    \E e \in SellerEntries \cup MarketEntries :
      \E sc \in Scenarios(e) :
        /\ entry = e
        /\ catalog = sc.catalog
        /\ supplier = sc.feed
        /\ pc = IF e = "market.main" THEN "download_stock" ELSE "get_offer_ids"
        /\ campaign = IF e \in SellerEntries THEN "OZON" ELSE "FBS"
        /\ page = ""
        /\ product_list = <<>>
        /\ offer_ids = <<>>
        /\ watch_remnants = IF e \in MainEntries THEN <<>> ELSE sc.feed
        /\ stocks = <<>>
        /\ prices = <<>>
        /\ batches = <<>>
        /\ requests = <<>>
        /\ in_flight = <<>>
        /\ coroutines = 0
        /\ outcome = "running"
        /\ printed = <<>>
        /\ call = <<>>
        /\ result = None

\* ------------------------------------------------------------------ the run

\* An exception that no except clause catches.
Raise_uncaught(failure) ==
    /\ pc' = "done"
    /\ outcome' = "raised"
    /\ printed' = printed

\* An exception leaves the function: main's try catches it, prints and
\* returns; a coroutine passes it on to its caller.
Raise(failure) ==
    /\ pc' = "done"
    /\ outcome' = IF entry \in MainEntries THEN "returned" ELSE "raised"
    /\ printed' = IF entry \in MainEntries
                  THEN Append(printed, Message(failure)) ELSE printed

\* The position a cursor names in the catalog.
CursorPos(cursor, cat) ==
    IF cursor = "" THEN 0 ELSE CHOOSE k \in 0..Len(cat) : ToString(k) = cursor

\* seller.get_product_list: the "result" of the page after last_id.
seller_get_product_list(last_id, cat) ==
    LET from == CursorPos(last_id, cat)
        to   == Min(from + OZON_PAGE_LIMIT, Len(cat))
    IN  [items   |-> [k \in 1..(to - from) |-> [offer_id |-> cat[from + k]]],
         total   |-> Len(cat),
         last_id |-> ToString(to)]

\* market.get_product_list: the "result" of the page of token page; the last
\* page carries no nextPageToken.
market_get_product_list(token, cat) ==
    LET from == CursorPos(token, cat)
        to   == Min(from + YANDEX_PAGE_LIMIT, Len(cat))
    IN  [offerMappingEntries |->
             [k \in 1..(to - from) |-> [offer |-> [shopSku |-> cat[from + k]]]],
         paging |-> [nextPageToken |-> IF to < Len(cat) THEN ToString(to) ELSE None]]

\* The statement after get_offer_ids returned.
AfterOfferIds(e) ==
    CASE e = "seller.main" -> "download_stock"
      [] e \in {"seller.upload_prices", "market.upload_prices"} -> "create_prices"
      [] OTHER -> "create_stocks"

\* What a request carries when it is issued: the endpoint, the campaign, and
\* the body (a batch of records, or the last_id / page_token of a page).
Issue(api, sent) == [api |-> api, campaign |-> campaign, sent |-> sent]

\* A call that hands the request over and does not wait for it to come back.
requests_call_nowait(api, sent) ==
    /\ outcome = "running"
    /\ Len(in_flight) < 2
    /\ in_flight' = Append(in_flight, Issue(api, sent))

\* requests.post / requests.get is called in the function at pc: the request
\* goes out, and the interpreter stays inside the call until it comes back.
requests_call(api, sent) ==
    /\ outcome = "running"
    /\ in_flight = <<>>
    /\ in_flight' = Append(in_flight, Issue(api, sent))

\* get_product_list issues the request of the page after last_id / page.
get_product_list ==
    /\ pc = "get_offer_ids" /\ entry \in SellerEntries \cup MarketEntries
    /\ requests_call("product_list", page)
    /\ UNCHANGED <<entry, catalog, supplier, pc, campaign, page, product_list,
                   offer_ids, watch_remnants, stocks, prices, batches, requests,
                   coroutines, outcome, printed, call, result>>

ListRequest(sent, ok, reply) ==
    [api |-> "product_list", campaign |-> campaign, sent |-> sent, ok |-> ok,
     reply |-> reply]

\* A loop that stops after its first page.
seller_list_complete_once(total, len) == TRUE

\* "if total == len(product_list): break"
seller_list_complete(total, len) == total = len

\* The second loop of seller.get_offer_ids: product.get("offer_id") of each.
seller_offer_ids(list) == [k \in 1..Len(list) |-> list[k].offer_id]

\* The request of get_product_list comes back: the rest of the pass of the
\* while loop of seller.get_offer_ids, and the code after the loop when the
\* pass ends it.
seller_get_offer_ids ==
    /\ outcome = "running" /\ pc = "get_offer_ids" /\ entry \in SellerEntries
    /\ in_flight # <<>> /\ Head(in_flight).api = "product_list"
    /\ in_flight' = Tail(in_flight)
    /\ \/ LET some_prod == seller_get_product_list(page, catalog[campaign])
          IN  /\ requests' = Append(requests, ListRequest(page, TRUE, some_prod.last_id))
              /\ product_list' = product_list \o some_prod.items
              /\ page' = some_prod.last_id
              /\ IF seller_list_complete(some_prod.total,
                                         Len(product_list) + Len(some_prod.items))
                 THEN /\ offer_ids' = seller_offer_ids(product_list \o some_prod.items)
                      /\ pc' = AfterOfferIds(entry)
                 ELSE UNCHANGED <<offer_ids, pc>>
              /\ UNCHANGED <<outcome, printed>>
       \/ \E failure \in Failures :
              /\ requests' = Append(requests, ListRequest(page, FALSE, None))
              /\ Raise(failure)
              /\ UNCHANGED <<product_list, page, offer_ids>>
    /\ UNCHANGED <<entry, catalog, supplier, campaign, watch_remnants, stocks,
                   prices, batches, coroutines, call, result>>

\* The second loop of market.get_offer_ids: the shopSku of each entry.
market_offer_ids(list) == [k \in 1..Len(list) |-> list[k].offer.shopSku]

\* "if not page"
Falsy(x) == x = None \/ x = ""

\* The request of get_product_list comes back: the rest of the pass of the
\* while loop of market.get_offer_ids, and the code after the loop when the
\* pass ends it.
market_get_offer_ids ==
    /\ outcome = "running" /\ pc = "get_offer_ids" /\ entry \in MarketEntries
    /\ in_flight # <<>> /\ Head(in_flight).api = "product_list"
    /\ in_flight' = Tail(in_flight)
    /\ \/ LET some_prod == market_get_product_list(page, catalog[campaign])
              next      == some_prod.paging.nextPageToken
          IN  /\ requests' = Append(requests, ListRequest(page, TRUE, next))
              /\ product_list' = product_list \o some_prod.offerMappingEntries
              /\ page' = next
              /\ IF Falsy(next)
                 THEN /\ offer_ids' = market_offer_ids(
                                          product_list \o some_prod.offerMappingEntries)
                      /\ pc' = AfterOfferIds(entry)
                 ELSE UNCHANGED <<offer_ids, pc>>
              /\ UNCHANGED <<outcome, printed>>
       \/ \E failure \in Failures :
              /\ requests' = Append(requests, ListRequest(page, FALSE, None))
              /\ Raise(failure)
              /\ UNCHANGED <<product_list, page, offer_ids>>
    /\ UNCHANGED <<entry, catalog, supplier, campaign, watch_remnants, stocks,
                   prices, batches, coroutines, call, result>>

\* download_stock issues session.get for the supplier's archive.
download_stock_call ==
    /\ pc = "download_stock"
    /\ requests_call("download", "ostatki.zip")
    /\ UNCHANGED <<entry, catalog, supplier, pc, campaign, page, product_list,
                   offer_ids, watch_remnants, stocks, prices, batches, requests,
                   coroutines, outcome, printed, call, result>>

\* The request of download_stock comes back: raise_for_status raises, or main
\* binds the supplier's rows to watch_remnants.  In seller.main the call
\* stands inside the try, in market.main before it.
download_stock ==
    /\ outcome = "running" /\ pc = "download_stock"
    /\ in_flight # <<>> /\ Head(in_flight).api = "download"
    /\ in_flight' = Tail(in_flight)
    /\ \/ /\ watch_remnants' = supplier
          /\ pc' = IF entry = "seller.main" THEN "create_stocks" ELSE "get_offer_ids"
          /\ UNCHANGED <<outcome, printed>>
       \/ \E failure \in Failures :
              /\ pc' = "done"
              /\ outcome' = IF entry = "seller.main" THEN "returned" ELSE "raised"
              /\ printed' = IF entry = "seller.main"
                            THEN Append(printed, Message(failure)) ELSE printed
              /\ UNCHANGED watch_remnants
    /\ UNCHANGED <<entry, catalog, supplier, campaign, page, product_list,
                   offer_ids, stocks, prices, batches, requests, coroutines,
                   call, result>>

\* stocks = create_stocks(watch_remnants, offer_ids) and list(divide(stocks, ...)):
\* the call removes the matched codes from the caller's offer_ids.
create_stocks ==
    /\ outcome = "running" /\ pc = "create_stocks"
    /\ UNCHANGED in_flight
    /\ LET made == IF entry \in SellerEntries
                   THEN seller_create_stocks(watch_remnants, offer_ids)
                   ELSE market_create_stocks(watch_remnants, offer_ids,
                                             Warehouse(campaign))
       IN  /\ stocks' = made.stocks
           /\ offer_ids' = made.offer_ids
           /\ batches' = divide(made.stocks, StocksCeiling(entry))
    /\ pc' = "update_stocks"
    /\ UNCHANGED <<entry, catalog, supplier, campaign, page, product_list,
                   watch_remnants, prices, requests, coroutines, outcome,
                   printed, call, result>>

UpdateRequest(api, sent, ok) ==
    [api |-> api, campaign |-> campaign, sent |-> sent, ok |-> ok]

\* The for loop over list(divide(stocks, ...)) takes the next batch and
\* update_stocks issues its request.
update_stocks_call ==
    /\ pc = "update_stocks" /\ batches # <<>>
    /\ requests_call("stocks", Head(batches))
    /\ UNCHANGED <<entry, catalog, supplier, pc, campaign, page, product_list,
                   offer_ids, watch_remnants, stocks, prices, batches, requests,
                   coroutines, outcome, printed, call, result>>

\* A loop that tries a failed batch again.
update_stocks_retry ==
    /\ outcome = "running" /\ pc = "update_stocks" /\ batches # <<>>
    /\ in_flight # <<>> /\ Head(in_flight).api = "stocks"
    /\ in_flight' = Tail(in_flight)
    /\ \/ /\ requests' = Append(requests, UpdateRequest("stocks", Head(batches), TRUE))
          /\ batches' = Tail(batches)
       \/ /\ Len(requests) < 4
          /\ requests' = Append(requests, UpdateRequest("stocks", Head(batches), FALSE))
          /\ UNCHANGED batches
    /\ UNCHANGED <<entry, catalog, supplier, campaign, page, product_list,
                   offer_ids, watch_remnants, stocks, prices, coroutines, call,
                   result, pc, outcome, printed>>

\* The request of update_stocks(some_stock, ...) comes back: raise_for_status
\* raises, or the call returns and the for loop goes on.
update_stocks ==
    /\ outcome = "running" /\ pc = "update_stocks" /\ batches # <<>>
    /\ in_flight # <<>> /\ Head(in_flight).api = "stocks"
    /\ in_flight' = Tail(in_flight)
    /\ \/ /\ requests' = Append(requests, UpdateRequest("stocks", Head(batches), TRUE))
          /\ batches' = Tail(batches)
          /\ UNCHANGED <<pc, outcome, printed>>
       \/ \E failure \in Failures :
              /\ requests' = Append(requests, UpdateRequest("stocks", Head(batches), FALSE))
              /\ Raise(failure)
              /\ UNCHANGED batches
    /\ UNCHANGED <<entry, catalog, supplier, campaign, page, product_list,
                   offer_ids, watch_remnants, stocks, prices, coroutines, call,
                   result>>

\* filter(lambda stock: stock.get("stock") != 0, stocks), and the Yandex form.
not_empty(e, lst) ==
    LET NonZero(stock) == IF e \in SellerEntries THEN stock.stock # 0
                          ELSE stock.count # 0
    IN  SelectSeq(lst, NonZero)

\* The stock loop is over: main goes on to the prices, upload_stocks returns
\* (not_empty, stocks).
stocks_uploaded ==
    /\ outcome = "running" /\ pc = "update_stocks" /\ batches = <<>>
    /\ UNCHANGED in_flight
    /\ IF entry \in MainEntries
       THEN /\ pc' = IF entry = "seller.main" THEN "create_prices" ELSE "upload_prices"
            /\ UNCHANGED <<outcome, result>>
       ELSE /\ pc' = "done"
            /\ outcome' = "returned"
            /\ result' = <<not_empty(entry, stocks), stocks>>
    /\ UNCHANGED <<entry, catalog, supplier, campaign, page, product_list,
                   offer_ids, watch_remnants, stocks, prices, batches, requests,
                   coroutines, printed, call>>

\* market.main: upload_prices(watch_remnants, campaign_id, market_token).
\* upload_prices is an async def and the call is not awaited: it makes a
\* coroutine object, runs none of the body, and main goes on.
upload_prices_call ==
    /\ outcome = "running" /\ pc = "upload_prices" /\ entry = "market.main"
    /\ UNCHANGED in_flight
    /\ coroutines' = coroutines + 1
    /\ IF campaign = "FBS"
       THEN /\ campaign' = "DBS"
            /\ pc' = "get_offer_ids"
            /\ page' = ""
            /\ product_list' = <<>>
            /\ UNCHANGED outcome
       ELSE /\ pc' = "done"
            /\ outcome' = "returned"
            /\ UNCHANGED <<campaign, page, product_list>>
    /\ UNCHANGED <<entry, catalog, supplier, offer_ids, watch_remnants, stocks,
                   prices, batches, requests, printed, call, result>>

\* prices = create_prices(watch_remnants, offer_ids) and list(divide(prices, ...)),
\* with offer_ids as the caller holds it at this statement.
create_prices ==
    /\ outcome = "running" /\ pc = "create_prices"
    /\ UNCHANGED in_flight
    /\ LET made == IF entry \in SellerEntries
                   THEN seller_create_prices(watch_remnants, offer_ids)
                   ELSE market_create_prices(watch_remnants, offer_ids)
       IN  /\ prices' = made
           /\ batches' = divide(made, PricesCeiling(entry))
    /\ pc' = "update_price"
    /\ UNCHANGED <<entry, catalog, supplier, campaign, page, product_list,
                   offer_ids, watch_remnants, stocks, requests, coroutines,
                   outcome, printed, call, result>>

\* The for loop over list(divide(prices, ...)) takes the next batch and
\* update_price issues its request.
update_price_call ==
    /\ pc = "update_price" /\ batches # <<>>
    /\ requests_call("prices", Head(batches))
    /\ UNCHANGED <<entry, catalog, supplier, pc, campaign, page, product_list,
                   offer_ids, watch_remnants, stocks, prices, batches, requests,
                   coroutines, outcome, printed, call, result>>

\* The request of update_price(some_price, ...) comes back: raise_for_status
\* raises, or the call returns and the for loop goes on.
update_price ==
    /\ outcome = "running" /\ pc = "update_price" /\ batches # <<>>
    /\ in_flight # <<>> /\ Head(in_flight).api = "prices"
    /\ in_flight' = Tail(in_flight)
    /\ \/ /\ requests' = Append(requests, UpdateRequest("prices", Head(batches), TRUE))
          /\ batches' = Tail(batches)
          /\ UNCHANGED <<pc, outcome, printed>>
       \/ \E failure \in Failures :
              /\ requests' = Append(requests, UpdateRequest("prices", Head(batches), FALSE))
              /\ Raise(failure)
              /\ UNCHANGED batches
    /\ UNCHANGED <<entry, catalog, supplier, campaign, page, product_list,
                   offer_ids, watch_remnants, stocks, prices, coroutines, call,
                   result>>

\* The price loop is over: seller.main ends, upload_prices returns prices.
prices_uploaded ==
    /\ outcome = "running" /\ pc = "update_price" /\ batches = <<>>
    /\ UNCHANGED in_flight
    /\ pc' = "done"
    /\ outcome' = "returned"
    /\ result' = IF entry \in MainEntries THEN None ELSE prices
    /\ UNCHANGED <<entry, catalog, supplier, campaign, page, product_list,
                   offer_ids, watch_remnants, stocks, prices, batches, requests,
                   coroutines, printed, call>>

NextRun ==
    \/ get_product_list
    \/ seller_get_offer_ids
    \/ market_get_offer_ids
    \/ download_stock_call
    \/ download_stock
    \/ create_stocks
    \/ update_stocks_call
    \/ update_stocks
    \/ stocks_uploaded
    \/ upload_prices_call
    \/ create_prices
    \/ update_price_call
    \/ update_price
    \/ prices_uploaded

SpecRun == InitRun /\ [][NextRun]_vars

\* ------------------------------------------------- the functions on their own

FnEntries == {"divide", "price_conversion", "seller.create_stocks",
              "market.create_stocks", "seller.create_prices",
              "market.create_prices"}

\* The sequences over S of length up to n.
Seqs(S, n) == UNION {[1..k -> S] : k \in 0..n}

\* The lists of distinct offer ids among "1" .. ToString(MaxCode).
IdLists ==
    {s \in Seqs(Range(Ids(MaxCode)), MaxCode) :
        \A i, j \in 1..Len(s) : i # j => s[i] # s[j]}

\* Code cells: odd codes as numeric cells, even codes as text cells; the code 0
\* is no offer id.
CodeCells ==
    {IF k % 2 = 1 THEN IntCell(k) ELSE StrCell(ToString(k)) : k \in 0..MaxCode}

\* Quantity cells: ">10", and numbers and decimal texts around 1 and 10.
QuantityCells ==
    {StrCell(">10")} \cup {IntCell(q) : q \in {0, 1, MaxQty}}
        \cup {StrCell(ToString(q)) : q \in {1, MaxQty - 1}}

\* "12 345.67 rub." (the docstring's example, its currency word in Latin letters)
Price12345 == <<"1", "2", " ", "3", "4", "5", ".", "6", "7", " ", "r", "u", "b", ".">>

PriceChars == {"1", "2", ".", " ", "r"}

\* The arguments each function is called with.
Calls(e) ==
    CASE e = "divide" ->
           {[lst |-> l, n |-> n] : l \in Seqs(1..2, MaxLen), n \in 1..MaxN}
      [] e = "price_conversion" ->
           {[price |-> p] :
               p \in Seqs(PriceChars, MaxPriceLen)
                       \cup {Price12345, Price111, Price5990}}
      [] e \in {"seller.create_stocks", "market.create_stocks"} ->
           {[watch_remnants |-> f, offer_ids |-> ids, warehouse_id |-> Warehouse("FBS")] :
               f \in Seqs({Row(c, q, Price111) : c \in CodeCells, q \in QuantityCells},
                          MaxRows),
               ids \in IdLists}
      [] OTHER ->
           {[watch_remnants |-> f, offer_ids |-> ids] :
               f \in Seqs({Row(c, IntCell(1), p) :
                              c \in CodeCells, p \in {Price111, Price5990}},
                          MaxRows),
               ids \in IdLists}

\* The state before one of the functions of E is called.
InitCall(E) ==
    \E e \in E :
      \E c \in Calls(e) :
        /\ entry = e
        /\ call = c
        /\ catalog = <<>>
        /\ supplier = <<>>
        /\ pc = "call"
        /\ campaign = None
        /\ page = ""
        /\ product_list = <<>>
        /\ offer_ids = IF e \in {"divide", "price_conversion"} THEN <<>> ELSE c.offer_ids
        /\ watch_remnants = <<>>
        /\ stocks = <<>>
        /\ prices = <<>>
        /\ batches = <<>>
        /\ requests = <<>>
        /\ in_flight = <<>>
        /\ coroutines = 0
        /\ outcome = "running"
        /\ printed = <<>>
        /\ result = None

\* What the call of entry e with the arguments c returns, and the caller's
\* offer_ids list after it.
Returns(e, c) ==
    CASE e = "divide" -> [value |-> divide(c.lst, c.n), offer_ids |-> <<>>]
      [] e = "price_conversion" ->
           [value |-> price_conversion(c.price), offer_ids |-> <<>>]
      [] e = "seller.create_stocks" ->
           [value     |-> seller_create_stocks(c.watch_remnants, c.offer_ids).stocks,
            offer_ids |-> seller_create_stocks(c.watch_remnants, c.offer_ids).offer_ids]
      [] e = "market.create_stocks" ->
           [value     |-> market_create_stocks(c.watch_remnants, c.offer_ids,
                                               c.warehouse_id).stocks,
            offer_ids |-> market_create_stocks(c.watch_remnants, c.offer_ids,
                                               c.warehouse_id).offer_ids]
      [] e = "seller.create_prices" ->
           [value     |-> seller_create_prices(c.watch_remnants, c.offer_ids),
            offer_ids |-> c.offer_ids]
      [] e = "market.create_prices" ->
           [value     |-> market_create_prices(c.watch_remnants, c.offer_ids),
            offer_ids |-> c.offer_ids]

\* The call of one function with the arguments of call.
call_function ==
    /\ outcome = "running" /\ pc = "call" /\ entry \in FnEntries
    /\ result' = Returns(entry, call).value
    /\ offer_ids' = Returns(entry, call).offer_ids
    /\ pc' = "done"
    /\ outcome' = "returned"
    /\ UNCHANGED <<entry, catalog, supplier, campaign, page, product_list,
                   watch_remnants, stocks, prices, batches, requests, in_flight,
                   coroutines, printed, call>>

InitFn == InitCall(FnEntries)

NextFn == call_function

\* The functions called on their own.
SpecFn == InitFn /\ [][NextFn]_vars

Init == InitRun \/ InitFn

Next == NextRun \/ NextFn

\* The runs of the entry points and the functions called on their own.
Spec == Init /\ [][Next]_vars

InitBatch == InitRun \/ InitCall({"divide"})

\* The runs of the entry points, and divide called on its own.
SpecBatch == InitBatch /\ [][Next]_vars

\* ---------------------------------------------------------------- properties

\* The requests of one endpoint for one campaign, in the order they were issued.
RequestsOf(api, c) ==
    LET Is(r) == r.api = api /\ r.campaign = c
    IN  SelectSeq(requests, Is)

\* The record lists the requests carried.
Payloads(reqs) == [k \in 1..Len(reqs) |-> reqs[k].sent]

RECURSIVE Flatten(_)
Flatten(bs) == IF bs = <<>> THEN <<>> ELSE Head(bs) \o Flatten(Tail(bs))

\* No request failed, and nothing else did.
NoFailure ==
    /\ outcome # "raised"
    /\ printed = <<>>
    /\ \A i \in 1..Len(requests) : requests[i].ok

\* The batches of the running loop that are still to be sent.
Pending(api) ==
    IF /\ outcome = "running"
       /\ \/ api = "stocks" /\ pc = "update_stocks"
          \/ api = "prices" /\ pc = "update_price"
    THEN batches ELSE <<>>

\* The ceilings as the claim C1 lists them.
CeilingC1(e, api) ==
    CASE e \in SellerEntries /\ api = "stocks"       -> 100
      [] e = "seller.upload_prices" /\ api = "prices" -> 1000
      [] e = "seller.main" /\ api = "prices"          -> 900
      [] e \in MarketEntries /\ api = "stocks"       -> 2000
      [] e \in MarketEntries /\ api = "prices"       -> 500

\* Every batch of bs holds 1 .. n records, and n when another batch follows it.
BatchSizesOk(bs, n) ==
    \A k \in 1..Len(bs) :
        /\ Len(bs[k]) >= 1
        /\ Len(bs[k]) <= n
        /\ (k < Len(bs) => Len(bs[k]) = n)

\* C1: every update request carries between 1 and its ceiling of records (100
\* Ozon stocks, 1000 Ozon prices in upload_prices, 900 in seller.main, 2000
\* Yandex stocks, 500 Yandex prices), every batch but the last of a list holds
\* exactly the ceiling, an empty list makes no batch and no request; and for
\* any list and any n >= 1 divide(lst, n) yields batches of 1 .. n records, all
\* but the last of n, and none for the empty list.
C1_BatchSizes ==
    /\ entry \in SellerEntries \cup MarketEntries =>
         \A api \in {"stocks", "prices"} :
           /\ BatchSizesOk(Payloads(RequestsOf(api, campaign)) \o Pending(api),
                           CeilingC1(entry, api))
           /\ (api = "stocks" /\ stocks = <<>>) =>
                  RequestsOf(api, campaign) \o Pending(api) = <<>>
           /\ (api = "prices" /\ prices = <<>>) =>
                  RequestsOf(api, campaign) \o Pending(api) = <<>>
    /\ (entry = "divide" /\ pc = "done") =>
         /\ BatchSizesOk(result, call.n)
         /\ (call.lst = <<>> => result = <<>>)

\* A list of 101 stock records went to Ozon as a batch of 100 and a batch of 1.
C1_Witness ==
    /\ entry = "seller.main"
    /\ Len(stocks) = 101
    /\ Len(RequestsOf("stocks", campaign)) = 2
    /\ Len(RequestsOf("stocks", campaign)[1].sent) = 100
    /\ Len(RequestsOf("stocks", campaign)[2].sent) = 1

\* C2: with no failed request the batches sent for a record list, put together
\* in the order they were sent, are that list: while a loop runs, the batches
\* sent and the batches still to send make up the list, and once it is over
\* the batches sent do; and divide(lst, n) is a lossless partition of lst.
C2_LosslessPartition ==
    /\ (entry \in SellerEntries \cup MarketEntries /\ NoFailure) =>
         /\ pc \in {"update_stocks", "upload_prices", "create_prices",
                    "update_price", "done"} =>
              Flatten(Payloads(RequestsOf("stocks", campaign)) \o Pending("stocks"))
                  = stocks
         /\ pc \in {"update_price", "done"} =>
              Flatten(Payloads(RequestsOf("prices", campaign)) \o Pending("prices"))
                  = prices
    /\ (entry = "divide" /\ pc = "done") => Flatten(result) = call.lst

\* seller.upload_stocks ran to its end without a failure and sent a list of
\* 201 records in three requests.
C2_Witness ==
    /\ entry = "seller.upload_stocks"
    /\ pc = "done"
    /\ NoFailure
    /\ Len(stocks) = 201
    /\ Len(RequestsOf("stocks", campaign)) = 3

\* The ids of the records of a list of Ozon or Yandex stock records.
StockIds(e, recs) ==
    [k \in 1..Len(recs) |-> IF e = "seller.create_stocks" THEN recs[k].offer_id
                            ELSE recs[k].sku]

StockCounts(e, recs) ==
    [k \in 1..Len(recs) |-> IF e = "seller.create_stocks" THEN recs[k].stock
                            ELSE recs[k].count]

\* The rows of the feed whose code is id, in feed order.
RowsOf(feed, id) ==
    LET Is(watch) == py_str(watch.Kod) = id
    IN  SelectSeq(feed, Is)

\* C3: for every feed and every list of distinct offer ids the records of
\* create_stocks (Ozon and Yandex) carry exactly the offer ids, each once; an
\* id without a feed row has the stock 0, an id with feed rows the stock of
\* its first row, and no record carries a code that is not an offer id.
C3_StocksCoverCatalog ==
    (entry \in {"seller.create_stocks", "market.create_stocks"} /\ pc = "done") =>
        LET ids == StockIds(entry, result)
            counts == StockCounts(entry, result)
        IN  /\ Len(ids) = Len(call.offer_ids)
            /\ Range(ids) = Range(call.offer_ids)
            /\ \A k \in 1..Len(ids) :
                 LET rows == RowsOf(call.watch_remnants, ids[k])
                 IN  counts[k] = IF rows = <<>> THEN 0
                                 ELSE IF entry = "seller.create_stocks"
                                      THEN seller_stock(rows[1])
                                      ELSE market_stock(rows[1])

\* A call whose feed has a row of an offer id and a row of a code that is no
\* offer id, and whose offer ids include one without a row.
C3_Witness ==
    /\ entry = "market.create_stocks"
    /\ pc = "done"
    /\ \E i, j \in 1..Len(call.watch_remnants) :
         /\ py_str(call.watch_remnants[i].Kod) \in Range(call.offer_ids)
         /\ py_str(call.watch_remnants[j].Kod) \notin Range(call.offer_ids)
    /\ \E id \in Range(call.offer_ids) : RowsOf(call.watch_remnants, id) = <<>>
    /\ Len(result) = 2

\* C4 (as claimed): in a run of seller.main without a failure the price
\* records sent to Ozon are create_prices(feed, catalog offer ids), one record
\* per feed row whose code is an offer id of the catalog.
C4_MainPricesCoverCatalog ==
    (entry = "seller.main" /\ pc = "done" /\ NoFailure) =>
        Flatten(Payloads(RequestsOf("prices", "OZON")))
            = seller_create_prices(supplier, catalog["OZON"])

\* get_offer_ids has returned and the caller has not changed its list yet.
OfferIdsReturned ==
    \/ pc = "create_stocks"
    \/ pc = "download_stock" /\ entry = "seller.main"
    \/ pc = "create_prices" /\ entry \in {"seller.upload_prices", "market.upload_prices"}

\* C5: get_offer_ids returns the offer ids of the whole catalog, each once and
\* in page order; the first page is requested with the empty last_id / token
\* and each next page with the one the response before it carried; on Yandex
\* a page is requested after every response with a nextPageToken and none
\* after the first response without one.
C5_OfferIdsArePagedCatalog ==
    entry \in SellerEntries \cup MarketEntries =>
        /\ OfferIdsReturned => offer_ids = catalog[campaign]
        /\ \A k \in 1..Len(RequestsOf("product_list", campaign)) :
             /\ k = 1 => RequestsOf("product_list", campaign)[k].sent = ""
             /\ k > 1 =>
                  /\ RequestsOf("product_list", campaign)[k - 1].ok
                  /\ RequestsOf("product_list", campaign)[k].sent
                         = RequestsOf("product_list", campaign)[k - 1].reply
                  /\ entry \in MarketEntries =>
                         RequestsOf("product_list", campaign)[k - 1].reply # None
        /\ (OfferIdsReturned /\ entry \in MarketEntries) =>
             RequestsOf("product_list", campaign)[
                 Len(RequestsOf("product_list", campaign))].reply = None

\* seller.get_offer_ids returned a catalog of 1001 products after two pages.
C5_Witness ==
    /\ entry \in SellerEntries
    /\ OfferIdsReturned
    /\ Len(offer_ids) = 1001
    /\ Len(RequestsOf("product_list", campaign)) = 2

\* C6: a failure of a marketplace request in main's try is caught: main has
\* printed one message of its except clauses and returned, nothing was raised
\* to the caller, and the failed request is the last request of the run.
C6_MainCatchesFailures ==
    entry \in MainEntries =>
        \A i \in 1..Len(requests) :
            ~requests[i].ok =>
                /\ i = Len(requests)
                /\ pc = "done"
                /\ outcome = "returned"
                /\ Len(printed) = 1
                /\ printed[1] \in {"Prevysheno vremya ozhidaniya...",
                                   "Oshibka soedineniya", "ERROR_2"}

\* market.main got through FBS and a request of DBS failed.
C6_Witness ==
    /\ entry = "market.main"
    /\ campaign = "DBS"
    /\ Len(requests) >= 3
    /\ ~requests[Len(requests)].ok
    /\ requests[Len(requests) - 1].ok

\* The list the requests of an endpoint are cut from, and its ceiling.
ListOf(api) == IF api = "stocks" THEN stocks ELSE prices
CeilingOf(api) == IF api = "stocks" THEN StocksCeiling(entry) ELSE PricesCeiling(entry)

\* C7: the j-th update request for a list carries its j-th batch, so no batch
\* is sent twice; a failed request is the last request of the run and the
\* run is over: the batches before it were sent once and stay in the log,
\* the failed batch was tried once, the batches after it are never sent.
C7_NoRetryNoRollback ==
    entry \in SellerEntries \cup MarketEntries =>
        /\ \A api \in {"stocks", "prices"} :
             \A j \in 1..Len(RequestsOf(api, campaign)) :
                 RequestsOf(api, campaign)[j].sent
                     = SubSeq(ListOf(api), (j - 1) * CeilingOf(api) + 1,
                              Min(j * CeilingOf(api), Len(ListOf(api))))
        /\ \A i \in 1..Len(requests) :
             ~requests[i].ok =>
                 /\ i = Len(requests)
                 /\ pc = "done"
                 /\ outcome # "running"

\* The second of three stock batches failed in seller.upload_stocks.
C7_Witness ==
    /\ entry = "seller.upload_stocks"
    /\ Len(stocks) = 201
    /\ Len(RequestsOf("stocks", campaign)) = 2
    /\ RequestsOf("stocks", campaign)[1].ok
    /\ ~RequestsOf("stocks", campaign)[2].ok
    /\ outcome = "raised"

\* C8 (as claimed): in a run of market.main without a failure the price
\* requests of each campaign, FBS and DBS, cover the feed rows whose code is
\* in the campaign's catalog.
C8_MarketMainUploadsPrices ==
    (entry = "market.main" /\ pc = "done" /\ NoFailure) =>
        \A c \in {"FBS", "DBS"} :
            Flatten(Payloads(RequestsOf("prices", c)))
                = market_create_prices(supplier, catalog[c])

\* The digits of s before its first ".", read character by character.
RECURSIVE DigitsBeforeFirstDot(_)
DigitsBeforeFirstDot(s) ==
    IF s = <<>> \/ Head(s) = "." THEN <<>>
    ELSE (IF Head(s) \in {"0", "1", "2", "3", "4", "5", "6", "7", "8", "9"}
          THEN <<Head(s)>> ELSE <<>>) \o DigitsBeforeFirstDot(Tail(s))

\* C9: price_conversion(price) is the digits of the part of price before its
\* first ".", in their order, and nothing else ("12 345.67 rub." gives
\* "12345", "111.11" gives "111"); it holds digits only, and price_conversion
\* of it is itself.
C9_PriceConversion ==
    (entry = "price_conversion" /\ pc = "done") =>
        /\ result = DigitsBeforeFirstDot(call.price)
        /\ Range(result) \subseteq Digits
        /\ price_conversion(result) = result
        /\ call.price = Price12345 => result = <<"1", "2", "3", "4", "5">>
        /\ call.price = Price111 => result = <<"1", "1", "1">>

\* price_conversion returned for the docstring's price, which has digits and
\* other characters on both sides of its first ".".
C9_Witness ==
    /\ entry = "price_conversion"
    /\ pc = "done"
    /\ call.price = Price12345
    /\ result = <<"1", "2", "3", "4", "5">>

\* The stock the claim C10 gives for a quantity cell.
StockC10(cell) ==
    IF cell.t = "str" /\ cell.v = ">10" THEN 100
    ELSE IF (cell.t = "str" /\ cell.v = "1") \/ (cell.t = "int" /\ cell.v = 1) THEN 0
    ELSE IF cell.t = "int" THEN cell.v
    ELSE CHOOSE k \in 0..MaxQty : ToString(k) = cell.v

\* C10: the record of an offer id with a feed row has the stock 100 for the
\* quantity ">10", 0 for the quantity 1 and the quantity's integer value
\* otherwise, in the Ozon and in the Yandex create_stocks alike.
C10_QuantityMapping ==
    (entry \in {"seller.create_stocks", "market.create_stocks"} /\ pc = "done") =>
        \A k \in 1..Len(result) :
            LET rows == RowsOf(call.watch_remnants, StockIds(entry, result)[k])
            IN  rows # <<>> =>
                    StockCounts(entry, result)[k] = StockC10(rows[1].Kolichestvo)

\* seller.create_stocks matched a row of quantity ">10" and a row of quantity 1.
C10_Witness ==
    /\ entry = "seller.create_stocks"
    /\ pc = "done"
    /\ Len(result) = 2
    /\ Len(call.watch_remnants) = 2
    /\ py_str(call.watch_remnants[1].Kolichestvo) = ">10"
    /\ py_str(call.watch_remnants[2].Kolichestvo) = "1"
    /\ result[1].stock = 100
    /\ result[2].stock = 0

\* Every request issued so far, in the order of issue: those that came back,
\* then those in flight.
IssuedOf(reqs) == [k \in 1..Len(reqs) |-> Issue(reqs[k].api, reqs[k].sent)]
IssuedCampaigns(reqs) == [k \in 1..Len(reqs) |-> reqs[k].campaign]

\* The place of a request in the order the claim C11 gives: the campaign
\* first (FBS before DBS), then the catalog pages, the stocks, the prices.
\* The download of the feed comes before everything else in market.main, and
\* between the catalog pages and the stocks in seller.main.
CampaignRank(c) == IF c = "DBS" THEN 2 ELSE 1
ApiRank(api) ==
    CASE api = "download" -> (IF entry = "market.main" THEN 0 ELSE 2)
      [] api = "product_list" -> 1
      [] api = "stocks" -> 3
      [] api = "prices" -> 4

InOrder(apis, campaigns) ==
    \A i \in 1..(Len(apis) - 1) :
        \/ CampaignRank(campaigns[i]) < CampaignRank(campaigns[i + 1])
        \/ /\ campaigns[i] = campaigns[i + 1]
           /\ ApiRank(apis[i].api) <= ApiRank(apis[i + 1].api)

\* The body of the j-th request of an endpoint is the j-th batch of its list.
BatchesInOrder(api, bodies) ==
    \A j \in 1..Len(bodies) :
        bodies[j] = SubSeq(ListOf(api), (j - 1) * CeilingOf(api) + 1,
                           Min(j * CeilingOf(api), Len(ListOf(api))))

\* The requests of one endpoint for the campaign at hand, those in flight
\* included, in the order of issue.
IssuedBodies(api) ==
    LET Is(r) == r.api = api /\ r.campaign = campaign
    IN  Payloads(SelectSeq(requests, Is)) \o Payloads(SelectSeq(in_flight, Is))

\* C11: requests are issued one after another in a fixed order.  At most one
\* request is in flight, and one is issued only when every request before it
\* came back without a failure.  In the order of issue the requests of one
\* campaign are the catalog pages, then the stock batches, then the price
\* batches, and in market.main every FBS request precedes every DBS request.
\* A stock batch is issued only after the whole catalog was fetched, a price
\* batch of main only after every stock batch was sent, and the j-th request
\* of a record list carries its j-th batch.
C11_SequentialOrder ==
    entry \in SellerEntries \cup MarketEntries =>
        /\ Len(in_flight) <= 1
        /\ in_flight # <<>> => \A i \in 1..Len(requests) : requests[i].ok
        /\ InOrder(IssuedOf(requests) \o in_flight,
                   IssuedCampaigns(requests) \o IssuedCampaigns(in_flight))
        /\ entry # "market.main" =>
               \A i \in 1..Len(requests) : requests[i].campaign = campaign
        /\ IssuedBodies("stocks") # <<>> =>
               Len(product_list) = Len(catalog[campaign])
        /\ (entry \in MainEntries /\ IssuedBodies("prices") # <<>>) =>
               Flatten(Payloads(RequestsOf("stocks", campaign))) = stocks
        /\ \A api \in {"stocks", "prices"} :
               BatchesInOrder(api, IssuedBodies(api))

\* market.main sent the two stock batches of FBS, fetched the two catalog
\* pages of DBS, and the DBS stock batch is in flight.
C11_Witness ==
    /\ entry = "market.main"
    /\ campaign = "DBS"
    /\ Len(RequestsOf("stocks", "FBS")) = 2
    /\ Len(RequestsOf("product_list", "DBS")) = 2
    /\ in_flight # <<>>
    /\ Head(in_flight).api = "stocks"
    /\ Len(Head(in_flight).sent) = 201

====
